---------------------------- MODULE Spec2Model ----------------------------
(***************************************************************************)
(* A model of the d-ary max-heap of src/main.c: the Heap struct, the heap  *)
(* functions (child, parent, dmaxHeapify, heapExtractMax, insert,          *)
(* increaseKey, buildMaxHeap, delete) and the drivers that call them.      *)
(*                                                                         *)
(* Array indices are those of the C code (0-based).  The array of the      *)
(* struct is a total function on 0..MAX_CAPACITY-1: slots at and beyond    *)
(* `size` keep whatever value they hold (the code never clears a slot).    *)
(***************************************************************************)
EXTENDS Integers, Sequences, FiniteSets

(***************************************************************************)
(* Bounds of the model.                                                    *)
(***************************************************************************)
\* Capacity of the array of a Heap.  main.c:14 fixes 5000; the model keeps
\* the role of the constant (the overflow test of insert, the extent of the
\* array) with a small value.
MAX_CAPACITY == 4
\* Degrees d range over 1..MaxD (main.c:346 accepts 1..INT_MAX).
MaxD == 4
\* Ordinary keys are 0..MaxKey; INT_MAX is a key as well.
MaxKey == 1

(***************************************************************************)
(* Program constants.                                                      *)
(***************************************************************************)
ROOT == 0
\* <limits.h>, 32-bit int.
INT_MAX == 2147483647

Keys == (0..MaxKey) \cup {INT_MAX}
Degrees == 1..MaxD
Slots == 0..(MAX_CAPACITY - 1)

VARIABLES
    array,   \* heap->array
    size,    \* heap->size
    d,       \* heap->d
    pc,      \* where the driver stands
    mode,    \* which driver runs: "main", "api", or a drain scenario
    last,    \* name of the heap function called last ("none" before any)
    err,     \* the error a call ended the process with ("none" if none)
    ret,     \* value returned by the last call (NoRet for a void function)
    out,     \* the values returned by the heapExtractMax calls of a drain
    orig,    \* the elements handed to the heap before a drain, in order
    iter     \* the loop a call is in, when calls are followed step by step

vars == <<array, size, d, pc, mode, last, err, ret, out, orig, iter>>
heapVars == <<array, size, d>>

NoRet == "void"

\* No loop is being followed.
NoIter == [fn |-> "none", i |-> 0, b |-> 0, then |-> "none"]

(***************************************************************************)
(* The functions of main.c, as operators on the fields of a Heap.          *)
(***************************************************************************)

\* C's integer division, which truncates towards zero.
CDiv(a, b) ==
    IF a >= 0 THEN a \div b ELSE -((-a) \div b)

\* A faulty swap without the temporary: `*x = *y; *y = *x;`.
swap_NoTemp(a, x, y) ==
    [a EXCEPT ![x] = a[y]]

swap(a, x, y) ==
    [a EXCEPT ![x] = a[y], ![y] = a[x]]

child(i, k, dd) ==
    dd * i + k

parent(i, dd) ==
    CDiv(i - 1, dd)

\* A faulty for loop of dmaxHeapify: `j < d` in place of `j <= d`, so the
\* last child is never looked at.
RECURSIVE LargestFrom_SkipsLastChild(_, _, _, _, _, _)
LargestFrom_SkipsLastChild(a, n, dd, i, j, largest) ==
    IF j >= dd
    THEN largest
    ELSE LET childrens == child(i, j, dd)
         IN  LargestFrom_SkipsLastChild(a, n, dd, i, j + 1,
                         IF childrens < n /\ a[childrens] > a[largest]
                         THEN childrens
                         ELSE largest)

\* A faulty for loop of dmaxHeapify: the child is compared with array[i] in
\* place of array[largest], so the last child greater than the node wins.
RECURSIVE LargestFrom_ComparesWithNode(_, _, _, _, _, _)
LargestFrom_ComparesWithNode(a, n, dd, i, j, largest) ==
    IF j > dd
    THEN largest
    ELSE LET childrens == child(i, j, dd)
         IN  LargestFrom_ComparesWithNode(a, n, dd, i, j + 1,
                         IF childrens < n /\ a[childrens] > a[i]
                         THEN childrens
                         ELSE largest)

\* A faulty for loop of dmaxHeapify: `>=` in place of `>`, so that among
\* equal keys the last one wins, and a child equal to the node too.
RECURSIVE LargestFrom_GreaterOrEqual(_, _, _, _, _, _)
LargestFrom_GreaterOrEqual(a, n, dd, i, j, largest) ==
    IF j > dd
    THEN largest
    ELSE LET childrens == child(i, j, dd)
         IN  LargestFrom_GreaterOrEqual(a, n, dd, i, j + 1,
                         IF childrens < n /\ a[childrens] >= a[largest]
                         THEN childrens
                         ELSE largest)

\* The for loop of dmaxHeapify (lines 93-99): j runs from 1 to d, `largest`
\* moves to a child only when the child is in range and strictly greater.
RECURSIVE LargestFrom(_, _, _, _, _, _)
LargestFrom(a, n, dd, i, j, largest) ==
    IF j > dd
    THEN largest
    ELSE LET childrens == child(i, j, dd)
         IN  LargestFrom(a, n, dd, i, j + 1,
                         IF childrens < n /\ a[childrens] > a[largest]
                         THEN childrens
                         ELSE largest)

\* A faulty dmaxHeapify: an `if` in place of the `while`, one level only.
dmaxHeapify_OneLevel(a, n, dd, i) ==
    LET largest == LargestFrom(a, n, dd, i, 1, i)
    IN  IF largest # i THEN swap(a, i, largest) ELSE a

\* dmaxHeapify(heap, i): the array after the while loop (lines 89-109).
RECURSIVE dmaxHeapify(_, _, _, _)
dmaxHeapify(a, n, dd, i) ==
    LET largest == LargestFrom(a, n, dd, i, 1, i)
    IN  IF largest # i
        THEN dmaxHeapify(swap(a, i, largest), n, dd, largest)
        ELSE a

\* A heap and the outcome of a call on it.  err is the message the call
\* exits the process with; ub says that the call wrote outside the array
\* object, after which the C standard says nothing about the program.
Heap(a, n, dd) ==
    [array |-> a, size |-> n, d |-> dd]

Outcome(h, e, r, u) ==
    [heap |-> h, err |-> e, ret |-> r, ub |-> u]

\* A faulty heapExtractMax: the call of dmaxHeapify (line 130) is missing.
heapExtractMax_NoHeapify(h) ==
    IF h.size < 1
    THEN Outcome(h, "Underflow", NoRet, FALSE)
    ELSE Outcome(Heap([h.array EXCEPT ![ROOT] = h.array[h.size - 1]],
                      h.size - 1, h.d),
                 "none", h.array[ROOT], FALSE)

heapExtractMax(h) ==
    IF h.size < 1
    THEN Outcome(h, "Underflow", NoRet, FALSE)
    ELSE LET max == h.array[ROOT]
             a1  == [h.array EXCEPT ![ROOT] = h.array[h.size - 1]]
             n1  == h.size - 1
         IN  Outcome(Heap(dmaxHeapify(a1, n1, h.d, ROOT), n1, h.d),
                     "none", max, FALSE)

\* A faulty loop of insert: an `if` in place of the `while`.
insertSiftUp_OneLevel(a, dd, i) ==
    IF i > ROOT /\ a[parent(i, dd)] < a[i]
    THEN swap(a, i, parent(i, dd))
    ELSE a

\* The while loop of insert (lines 154-158).
RECURSIVE insertSiftUp(_, _, _)
insertSiftUp(a, dd, i) ==
    IF i > ROOT /\ a[parent(i, dd)] < a[i]
    THEN insertSiftUp(swap(a, i, parent(i, dd)), dd, parent(i, dd))
    ELSE a

\* A faulty insert: `size > MAX_CAPACITY` in place of `==`, so that a full
\* heap takes one more key (stored past the last slot).
insert_LateOverflowTest(h, key) ==
    IF h.size > MAX_CAPACITY
    THEN Outcome(h, "Overflow", NoRet, FALSE)
    ELSE Outcome(Heap(IF h.size \in Slots
                      THEN insertSiftUp([h.array EXCEPT ![h.size] = key],
                                        h.d, h.size)
                      ELSE h.array,
                      h.size + 1, h.d),
                 "none", NoRet, FALSE)

insert(h, key) ==
    IF h.size = MAX_CAPACITY
    THEN Outcome(h, "Overflow", NoRet, FALSE)
    ELSE LET a1 == [h.array EXCEPT ![h.size] = key]
             i  == h.size
         IN  Outcome(Heap(insertSiftUp(a1, h.d, i), h.size + 1, h.d),
                     "none", NoRet, FALSE)

\* The while loop of increaseKey (lines 178-182).
RECURSIVE increaseKeySiftUp(_, _, _)
increaseKeySiftUp(a, dd, i) ==
    IF i > 0 /\ a[parent(i, dd)] < a[i]
    THEN increaseKeySiftUp(swap(a, i, parent(i, dd)), dd, parent(i, dd))
    ELSE a

\* The values a read of heap->array[i] can yield: the slot's value when i is
\* an index of the array (also when i >= size), any value when the read is
\* outside the array.
ReadAt(a, i) ==
    IF i \in Slots THEN {a[i]} ELSE Keys

\* A faulty increaseKey: the key is stored before it is compared.
increaseKey_StoreFirst(h, i, key, cur) ==
    LET a1 == IF i \in Slots THEN [h.array EXCEPT ![i] = key] ELSE h.array
    IN  IF key < cur
        THEN Outcome(Heap(a1, h.size, h.d), "InvalidKey", NoRet, i \notin Slots)
        ELSE IF i \notin Slots
        THEN Outcome(h, "none", NoRet, TRUE)
        ELSE Outcome(Heap(increaseKeySiftUp(a1, h.d, i), h.size, h.d),
                     "none", NoRet, FALSE)

\* A faulty increaseKey: `key <= heap->array[i]` in place of `<`, so that a
\* key equal to the stored one is rejected.
increaseKey_RejectsEqual(h, i, key, cur) ==
    IF key <= cur
    THEN Outcome(h, "InvalidKey", NoRet, FALSE)
    ELSE IF i \notin Slots
    THEN Outcome(h, "none", NoRet, TRUE)
    ELSE Outcome(Heap(increaseKeySiftUp([h.array EXCEPT ![i] = key], h.d, i),
                      h.size, h.d),
                 "none", NoRet, FALSE)

\* increaseKey(heap, i, key), where cur is what the read of heap->array[i]
\* in line 171 yields (one of ReadAt(heap->array, i)).  The function tests
\* nothing about i.  When i is no index of the array, the write of line 177
\* is outside the array.
increaseKey(h, i, key, cur) ==
    IF key < cur
    THEN Outcome(h, "InvalidKey", NoRet, FALSE)
    ELSE IF i \notin Slots
    THEN Outcome(h, "none", NoRet, TRUE)
    ELSE Outcome(Heap(increaseKeySiftUp([h.array EXCEPT ![i] = key], h.d, i),
                      h.size, h.d),
                 "none", NoRet, FALSE)

\* The for loop of buildMaxHeap (lines 193-194), from index i down to 0.
RECURSIVE buildLoop(_, _, _, _)
buildLoop(a, n, dd, i) ==
    IF i >= 0
    THEN buildLoop(dmaxHeapify(a, n, dd, i), n, dd, i - 1)
    ELSE a

buildStart(n, dd) ==
    CDiv(n, dd) - 1

buildMaxHeap(h) ==
    Outcome(Heap(buildLoop(h.array, h.size, h.d, buildStart(h.size, h.d)),
                 h.size, h.d),
            "none", NoRet, FALSE)

\* A faulty delete: the key is not raised first, so the root is removed.
delete_RootOnly(h, index, cur) ==
    IF index >= h.size
    THEN Outcome(h, "IndexOutOfBounds", NoRet, FALSE)
    ELSE LET r2 == heapExtractMax(h)
         IN  Outcome(r2.heap, r2.err, NoRet, FALSE)

\* delete(heap, index): only index >= size is tested; then increaseKey to
\* INT_MAX and heapExtractMax, each of which may end the process itself.
\* cur is what increaseKey reads at heap->array[index].
delete(h, index, cur) ==
    IF index >= h.size
    THEN Outcome(h, "IndexOutOfBounds", NoRet, FALSE)
    ELSE LET r1 == increaseKey(h, index, INT_MAX, cur)
         IN  IF r1.err # "none" \/ r1.ub
             THEN r1
             ELSE LET r2 == heapExtractMax(r1.heap)
                  IN  Outcome(r2.heap, r2.err, NoRet, FALSE)

(***************************************************************************)
(* Properties of a heap that the claims speak about.                       *)
(***************************************************************************)

\* The max-heap property of the first n slots of a, for degree dd.
MaxHeapOf(a, n, dd) ==
    \A i \in 0..(n - 1) : \A k \in 1..dd :
        child(i, k, dd) < n => a[i] >= a[child(i, k, dd)]

MaxHeap == MaxHeapOf(array, size, d)

\* The multiset of the first n slots of a: how often each key occurs.
BagOf(a, n) ==
    [k \in Keys |-> Cardinality({j \in 0..(n - 1) : a[j] = k})]

\* The multiset of a sequence.
BagOfSeq(s) ==
    [k \in Keys |-> Cardinality({j \in 1..Len(s) : s[j] = k})]

NonIncreasing(s) ==
    \A j \in 1..(Len(s) - 1) : s[j] >= s[j + 1]

TypeOK ==
    /\ array \in [Slots -> Keys]
    /\ size \in 0..MAX_CAPACITY
    /\ d \in Degrees

(***************************************************************************)
(* What a call does to the state of the process.                           *)
(***************************************************************************)

\* A faulty error path: the message is printed and the call returns.
AfterCall_Returns(r, loop) ==
    IF r.ub THEN "undefined" ELSE loop

\* exit(EXIT_FAILURE) ends the process; a call that returns leaves the
\* driver where it loops.
AfterCall(r, loop) ==
    IF r.ub THEN "undefined"
    ELSE IF r.err # "none" THEN "exited"
    ELSE loop

Call(name, r, loop) ==
    /\ array' = r.heap.array
    /\ size' = r.heap.size
    /\ d' = r.heap.d
    /\ last' = name
    /\ err' = r.err
    /\ ret' = r.ret
    /\ pc' = AfterCall(r, loop)

H == Heap(array, size, d)

(***************************************************************************)
(* Spec: main().  The state after readHeapsFromFile, the choice of an      *)
(* array and of d (lines 330-350) is any array of any size and any degree; *)
(* then buildMaxHeap, then the menu loop, whose prompts (getIntInput)      *)
(* accept a key in INT_MIN..INT_MAX and an index in 0..size-1 only.        *)
(***************************************************************************)
Init ==
    /\ array \in [Slots -> Keys]
    /\ size \in 0..MAX_CAPACITY
    /\ d \in Degrees
    /\ pc = "build"
    /\ mode = "main"
    /\ last = "none"
    /\ err = "none"
    /\ ret = NoRet
    /\ out = <<>>
    /\ orig = <<>>
    /\ iter = NoIter

MainBuild ==
    /\ pc = "build"
    /\ Call("buildMaxHeap", buildMaxHeap(H), "menu")
    /\ UNCHANGED <<mode, out, orig, iter>>

MainInsert(key) ==
    /\ pc = "menu"
    /\ Call("insert", insert(H, key), "menu")
    /\ UNCHANGED <<mode, out, orig, iter>>

\* case 2: the index prompt accepts 0..size-1.
MainIncreaseKey(index, key) ==
    /\ pc = "menu"
    /\ index \in 0..(size - 1)
    /\ Call("increaseKey", increaseKey(H, index, key, array[index]), "menu")
    /\ UNCHANGED <<mode, out, orig, iter>>

\* case 3 with a non-empty heap.
MainExtractMax ==
    /\ pc = "menu"
    /\ size > 0
    /\ Call("heapExtractMax", heapExtractMax(H), "menu")
    /\ UNCHANGED <<mode, out, orig, iter>>

\* case 3 with an empty heap: "Heap is empty!", no call.
MainHeapIsEmpty ==
    /\ pc = "menu"
    /\ ~(size > 0)
    /\ last' = "none"
    /\ ret' = NoRet
    /\ UNCHANGED <<array, size, d, pc, mode, err, out, orig, iter>>

\* case 4: the index prompt accepts 0..size-1.
MainDelete(index) ==
    /\ pc = "menu"
    /\ index \in 0..(size - 1)
    /\ Call("delete", delete(H, index, array[index]), "menu")
    /\ UNCHANGED <<mode, out, orig, iter>>

\* case 2 or case 4 with an empty heap: getIntInput(prompt, 0, -1) accepts
\* no number, so the loop of getIntInput (lines 297-309) never returns.
MainIndexPrompt ==
    /\ pc = "menu"
    /\ size - 1 < 0
    /\ pc' = "getIntInput"
    /\ UNCHANGED <<array, size, d, mode, last, err, ret, out, orig, iter>>

\* Every input at that prompt is answered with "Invalid input".
MainInvalidInput ==
    /\ pc = "getIntInput"
    /\ UNCHANGED vars

\* case 5.
MainExit ==
    /\ pc = "menu"
    /\ pc' = "exited"
    /\ UNCHANGED <<array, size, d, mode, last, err, ret, out, orig, iter>>

Next ==
    \/ MainBuild
    \/ \E key \in Keys : MainInsert(key)
    \/ \E index \in Slots, key \in Keys : MainIncreaseKey(index, key)
    \/ MainExtractMax
    \/ MainHeapIsEmpty
    \/ \E index \in Slots : MainDelete(index)
    \/ MainIndexPrompt
    \/ MainInvalidInput
    \/ MainExit

Spec == Init /\ [][Next]_vars

(***************************************************************************)
(* SpecApi: one call of a heap function, with any int arguments, on any    *)
(* Heap (every array, size and degree is an initial state, so every call   *)
(* on every heap is a step).  Indices range over ApiIndices, which has an  *)
(* index on each side of the array.  A call that returns leaves pc at      *)
(* "returned"; one that writes outside the array leaves it at "undefined", *)
(* about which the model says nothing further.                             *)
(***************************************************************************)
ApiIndices == (-1)..MAX_CAPACITY

InitApi ==
    /\ array \in [Slots -> Keys]
    /\ size \in 0..MAX_CAPACITY
    /\ d \in Degrees
    /\ pc = "api"
    /\ mode = "api"
    /\ last = "none"
    /\ err = "none"
    /\ ret = NoRet
    /\ out = <<>>
    /\ orig = <<>>
    /\ iter = NoIter

ApiBuild ==
    /\ pc = "api"
    /\ Call("buildMaxHeap", buildMaxHeap(H), "returned")
    /\ UNCHANGED <<mode, out, orig, iter>>

ApiInsert(key) ==
    /\ pc = "api"
    /\ Call("insert", insert(H, key), "returned")
    /\ UNCHANGED <<mode, out, orig, iter>>

ApiIncreaseKey(i, key, cur) ==
    /\ pc = "api"
    /\ Call("increaseKey", increaseKey(H, i, key, cur), "returned")
    /\ UNCHANGED <<mode, out, orig, iter>>

ApiExtractMax ==
    /\ pc = "api"
    /\ Call("heapExtractMax", heapExtractMax(H), "returned")
    /\ UNCHANGED <<mode, out, orig, iter>>

ApiDelete(index, cur) ==
    /\ pc = "api"
    /\ Call("delete", delete(H, index, cur), "returned")
    /\ UNCHANGED <<mode, out, orig, iter>>

\* dmaxHeapify(heap, i) called on its own, with i an index of the array.
ApiHeapify(i) ==
    /\ pc = "api"
    /\ Call("dmaxHeapify",
            Outcome(Heap(dmaxHeapify(array, size, d, i), size, d),
                    "none", NoRet, FALSE),
            "returned")
    /\ UNCHANGED <<mode, out, orig, iter>>

NextApi ==
    \/ ApiBuild
    \/ \E key \in Keys : ApiInsert(key)
    \/ \E i \in ApiIndices, key \in Keys :
          \E cur \in ReadAt(array, i) : ApiIncreaseKey(i, key, cur)
    \/ ApiExtractMax
    \/ \E index \in ApiIndices :
          \E cur \in ReadAt(array, index) : ApiDelete(index, cur)
    \/ \E i \in Slots : ApiHeapify(i)

SpecApi == InitApi /\ [][NextApi]_vars

(***************************************************************************)
(* SpecDrain: a heap is filled, then emptied by heapExtractMax calls alone.*)
(* The heap is filled in one of three ways (mode):                         *)
(*   "given"  - the array is taken as it is;                               *)
(*   "build"  - buildMaxHeap is called on the array;                       *)
(*   "insert" - the heap starts empty and keys are inserted one by one.    *)
(* orig lists the elements handed to the heap, out the values extracted.   *)
(***************************************************************************)
Prefix(a, n) ==
    [j \in 1..n |-> a[j - 1]]

InitDrain ==
    /\ array \in [Slots -> Keys]
    /\ size \in 0..MAX_CAPACITY
    /\ d \in Degrees
    /\ mode \in {"given", "build", "insert"}
    /\ mode = "insert" => size = 0
    /\ pc = IF mode = "given" THEN "drain" ELSE "fill"
    /\ last = "none"
    /\ err = "none"
    /\ ret = NoRet
    /\ out = <<>>
    /\ orig = Prefix(array, size)
    /\ iter = NoIter

DrainBuild ==
    /\ pc = "fill"
    /\ mode = "build"
    /\ Call("buildMaxHeap", buildMaxHeap(H), "drain")
    /\ UNCHANGED <<mode, out, orig, iter>>

DrainInsert(key) ==
    /\ pc = "fill"
    /\ mode = "insert"
    /\ size < MAX_CAPACITY
    /\ Call("insert", insert(H, key), "fill")
    /\ orig' = Append(orig, key)
    /\ UNCHANGED <<mode, out, iter>>

\* The first extraction ends the filling.
DrainExtractMax ==
    /\ pc = "drain" \/ (pc = "fill" /\ mode = "insert")
    /\ size >= 1
    /\ LET r == heapExtractMax(H)
       IN  /\ Call("heapExtractMax", r, "drain")
           /\ out' = Append(out, r.ret)
    /\ UNCHANGED <<mode, orig, iter>>

NextDrain ==
    \/ DrainBuild
    \/ \E key \in Keys : DrainInsert(key)
    \/ DrainExtractMax

SpecDrain == InitDrain /\ [][NextDrain]_vars

(***************************************************************************)
(* SpecSteps: one call on any heap, followed one loop iteration at a time. *)
(* iter names the loop that runs (fn: "up" for the while loop of insert or *)
(* increaseKey, "down" for the while loop of dmaxHeapify), its index i,    *)
(* and what follows the loop (then): "return" when the function returns,   *)
(* "extract" when delete goes on with heapExtractMax, "build" when the for *)
(* loop of buildMaxHeap, whose index is b, goes on.  The for loop inside   *)
(* dmaxHeapify is one step here; SpecInt follows it.  Indices are those    *)
(* main passes, 0..size-1.                                                 *)
(***************************************************************************)
Loop(fn, i, b, then) ==
    [fn |-> fn, i |-> i, b |-> b, then |-> then]

\* A faulty sift-up loop: `i = parent(i, heap->d)` (line 157) is missing.
UpIter_KeepsIndex(a, dd, i) ==
    IF i > ROOT /\ a[parent(i, dd)] < a[i]
    THEN [array |-> swap(a, i, parent(i, dd)), i |-> i, more |-> TRUE]
    ELSE [array |-> a, i |-> i, more |-> FALSE]

\* One test of the while loop of insert (lines 154-158) or increaseKey
\* (lines 178-182) with index i, and the body when the test holds.
UpIter(a, dd, i) ==
    IF i > ROOT /\ a[parent(i, dd)] < a[i]
    THEN [array |-> swap(a, i, parent(i, dd)), i |-> parent(i, dd),
          more |-> TRUE]
    ELSE [array |-> a, i |-> i, more |-> FALSE]

\* One iteration of the while loop of dmaxHeapify (lines 91-107) with
\* index i; more is FALSE when the iteration ends in `break`.
DownIter(a, n, dd, i) ==
    LET largest == LargestFrom(a, n, dd, i, 1, i)
    IN  IF largest # i
        THEN [array |-> swap(a, i, largest), i |-> largest, more |-> TRUE]
        ELSE [array |-> a, i |-> i, more |-> FALSE]

InitSteps ==
    /\ array \in [Slots -> Keys]
    /\ size \in 0..MAX_CAPACITY
    /\ d \in Degrees
    /\ pc = "call"
    /\ mode = "steps"
    /\ last = "none"
    /\ err = "none"
    /\ ret = NoRet
    /\ out = <<>>
    /\ orig = <<>>
    /\ iter = NoIter

\* insert up to the loop (lines 144-152).
StepsInsert(key) ==
    /\ pc = "call"
    /\ last' = "insert"
    /\ IF size = MAX_CAPACITY
       THEN /\ err' = "Overflow"
            /\ pc' = "exited"
            /\ UNCHANGED <<array, size, iter>>
       ELSE /\ array' = [array EXCEPT ![size] = key]
            /\ size' = size + 1
            /\ iter' = Loop("up", size, 0, "return")
            /\ pc' = "loop"
            /\ err' = "none"
    /\ UNCHANGED <<d, mode, ret, out, orig>>

\* increaseKey up to the loop (lines 171-177).
StepsIncreaseKey(i, key) ==
    /\ pc = "call"
    /\ i \in 0..(size - 1)
    /\ last' = "increaseKey"
    /\ IF key < array[i]
       THEN /\ err' = "InvalidKey"
            /\ pc' = "exited"
            /\ UNCHANGED <<array, iter>>
       ELSE /\ array' = [array EXCEPT ![i] = key]
            /\ iter' = Loop("up", i, 0, "return")
            /\ pc' = "loop"
            /\ err' = "none"
    /\ UNCHANGED <<size, d, mode, ret, out, orig>>

\* delete up to the loop of the increaseKey it calls (lines 206-212 and
\* 171-177); with index in 0..size-1 neither test rejects.
StepsDelete(index) ==
    /\ pc = "call"
    /\ index \in 0..(size - 1)
    /\ ~(index >= size)
    /\ ~(INT_MAX < array[index])
    /\ last' = "delete"
    /\ array' = [array EXCEPT ![index] = INT_MAX]
    /\ iter' = Loop("up", index, 0, "extract")
    /\ pc' = "loop"
    /\ err' = "none"
    /\ UNCHANGED <<size, d, mode, ret, out, orig>>

\* heapExtractMax up to the call of dmaxHeapify (lines 121-130), called on
\* its own or by delete (line 213).  The value it returns later (max) is
\* not followed here.
StepsExtractMax ==
    /\ pc \in {"call", "extract"}
    /\ last' = IF pc = "call" THEN "heapExtractMax" ELSE last
    /\ IF size < 1
       THEN /\ err' = "Underflow"
            /\ pc' = "exited"
            /\ UNCHANGED <<array, size, iter>>
       ELSE /\ array' = [array EXCEPT ![ROOT] = array[size - 1]]
            /\ size' = size - 1
            /\ iter' = Loop("down", ROOT, 0, "return")
            /\ pc' = "loop"
            /\ err' = "none"
    /\ UNCHANGED <<d, mode, ret, out, orig>>

\* buildMaxHeap up to its first call of dmaxHeapify (line 193).
StepsBuild ==
    /\ pc = "call"
    /\ last' = "buildMaxHeap"
    /\ IF buildStart(size, d) >= 0
       THEN /\ iter' = Loop("down", buildStart(size, d), buildStart(size, d),
                            "build")
            /\ pc' = "loop"
       ELSE /\ pc' = "returned"
            /\ UNCHANGED iter
    /\ UNCHANGED <<array, size, d, mode, err, ret, out, orig>>

\* The sift-up loop: one test, and the body or the way out.
StepsUp ==
    /\ pc = "loop"
    /\ iter.fn = "up"
    /\ LET r == UpIter(array, d, iter.i)
       IN  /\ array' = r.array
           /\ IF r.more
              THEN /\ iter' = [iter EXCEPT !.i = r.i]
                   /\ pc' = "loop"
              ELSE /\ iter' = NoIter
                   /\ pc' = IF iter.then = "extract" THEN "extract"
                            ELSE "returned"
    /\ UNCHANGED <<size, d, mode, last, err, ret, out, orig>>

\* The loop of dmaxHeapify: one iteration; after the `break`, the return,
\* or `i--` and the next call of buildMaxHeap's loop.
StepsDown ==
    /\ pc = "loop"
    /\ iter.fn = "down"
    /\ LET r == DownIter(array, size, d, iter.i)
       IN  /\ array' = r.array
           /\ IF r.more
              THEN /\ iter' = [iter EXCEPT !.i = r.i]
                   /\ pc' = "loop"
              ELSE IF iter.then = "build" /\ iter.b - 1 >= 0
              THEN /\ iter' = Loop("down", iter.b - 1, iter.b - 1, "build")
                   /\ pc' = "loop"
              ELSE /\ iter' = NoIter
                   /\ pc' = "returned"
    /\ UNCHANGED <<size, d, mode, last, err, ret, out, orig>>

NextSteps ==
    \/ \E key \in Keys : StepsInsert(key)
    \/ \E i \in Slots, key \in Keys : StepsIncreaseKey(i, key)
    \/ \E index \in Slots : StepsDelete(index)
    \/ StepsExtractMax
    \/ StepsBuild
    \/ StepsUp
    \/ StepsDown

SpecSteps == InitSteps /\ [][NextSteps]_vars

\* The program is one thread that always takes its next step.
SpecStepsFair == SpecSteps /\ WF_vars(NextSteps)

(***************************************************************************)
(* SpecInt: one call of dmaxHeapify with the for loop followed iteration   *)
(* by iteration and the arithmetic done in int, for small degrees and for  *)
(* degrees near INT_MAX, all of which the degree prompt accepts.  iter     *)
(* holds the locals i, j and largest.  A signed overflow is undefined      *)
(* behaviour: pc goes to "undefined" and the model says nothing further.   *)
(* A run of iterations that change nothing but j is taken in one step      *)
(* (IntForSkip), so that the loop can be followed for a large d.           *)
(***************************************************************************)
\* Degrees near INT_MAX: the largest degree for which no index of the
\* array makes child() overflow, a degree above INT_MAX/2, and the two
\* largest degrees.
BigDegrees ==
    {INT_MAX \div MAX_CAPACITY, INT_MAX \div 2 + 1, INT_MAX - 1, INT_MAX}

IntDegrees == Degrees \cup BigDegrees

\* d * i + k of child() is above INT_MAX (for i, k, dd >= 0), computed
\* without leaving the int range.
ChildOverflows(i, k, dd) ==
    i > 0 /\ dd > (INT_MAX - k) \div i

ForLoop(i, j, largest) ==
    [fn |-> "for", i |-> i, j |-> j, largest |-> largest]

InitInt ==
    /\ array \in [Slots -> Keys]
    /\ size \in 0..MAX_CAPACITY
    /\ d \in IntDegrees
    /\ pc = "call"
    /\ mode = "int"
    /\ last = "none"
    /\ err = "none"
    /\ ret = NoRet
    /\ out = <<>>
    /\ orig = <<>>
    /\ iter = NoIter

\* dmaxHeapify(heap, i) as its callers call it: heapExtractMax with ROOT,
\* after it has taken one element off (line 130), buildMaxHeap with the
\* indices from size/d - 1 down to 0 (line 194).  `largest = i; j = 1`.
IntHeapify(i) ==
    /\ pc = "call"
    /\ \/ i = ROOT /\ size < MAX_CAPACITY
       \/ i >= 0 /\ i <= buildStart(size, d)
    /\ last' = "dmaxHeapify"
    /\ iter' = ForLoop(i, 1, i)
    /\ pc' = "for"
    /\ UNCHANGED <<array, size, d, mode, err, ret, out, orig>>

\* The iteration up to which the iterations from j on neither overflow nor
\* find a child in range: the last one (j = d), or the first one in which
\* child() overflows.
SkipTo(i, dd) ==
    IF ChildOverflows(i, dd, dd) THEN INT_MAX - dd * i + 1 ELSE dd

\* The iterations from j on, up to SkipTo, change nothing but j: the child
\* index of iteration j is at or above size already, and it only grows.
Skippable(i, j, n, dd) ==
    /\ j < dd
    /\ ~ChildOverflows(i, j, dd)
    /\ child(i, j, dd) >= n
    /\ j < SkipTo(i, dd)

\* One iteration of the for loop (lines 93-99) with j <= d: child(i, j, d),
\* the test, and ++j.
IntForIter ==
    /\ pc = "for"
    /\ iter.j <= d
    /\ ~Skippable(iter.i, iter.j, size, d)
    /\ IF ChildOverflows(iter.i, iter.j, d) \/ iter.j = INT_MAX
       THEN /\ pc' = "undefined"
            /\ UNCHANGED iter
       ELSE /\ LET childrens == child(iter.i, iter.j, d)
               IN  iter' = [iter EXCEPT
                              !.j = iter.j + 1,
                              !.largest =
                                  IF /\ childrens < size
                                     /\ array[childrens] > array[iter.largest]
                                  THEN childrens
                                  ELSE iter.largest]
            /\ pc' = "for"
    /\ UNCHANGED <<array, size, d, mode, last, err, ret, out, orig>>

\* The iterations j .. SkipTo - 1 taken in one step: each of them computes
\* an index at or above size, without overflow, and adds one to j.
IntForSkip ==
    /\ pc = "for"
    /\ Skippable(iter.i, iter.j, size, d)
    /\ iter' = [iter EXCEPT !.j = SkipTo(iter.i, d)]
    /\ UNCHANGED <<array, size, d, pc, mode, last, err, ret, out, orig>>

\* After the for loop (j > d): the swap and the next iteration of the
\* while loop, or the break (lines 101-107).
IntWhile ==
    /\ pc = "for"
    /\ iter.j > d
    /\ IF iter.largest # iter.i
       THEN /\ array' = swap(array, iter.i, iter.largest)
            /\ iter' = ForLoop(iter.largest, 1, iter.largest)
            /\ pc' = "for"
       ELSE /\ pc' = "returned"
            /\ UNCHANGED <<array, iter>>
    /\ UNCHANGED <<size, d, mode, last, err, ret, out, orig>>

NextInt ==
    \/ \E i \in Slots : IntHeapify(i)
    \/ IntForIter
    \/ IntForSkip
    \/ IntWhile

SpecInt == InitInt /\ [][NextInt]_vars

(***************************************************************************)
(* The claims.                                                             *)
(***************************************************************************)

\* C1: after buildMaxHeap, for every initial array and every degree d >= 1,
\* the max-heap property holds: array[i] >= array[d*i + k] for every i and
\* every k in 1..d with d*i + k < size.
C1_BuildYieldsMaxHeap ==
    last = "buildMaxHeap" => MaxHeap

\* The accepted calls C2 speaks about, as steps of SpecApi.
AcceptedCall ==
    \/ \E key \in Keys : size < MAX_CAPACITY /\ ApiInsert(key)
    \/ \E i \in 0..(size - 1), key \in Keys :
          key >= array[i] /\ ApiIncreaseKey(i, key, array[i])
    \/ size >= 1 /\ ApiExtractMax
    \/ \E index \in 0..(size - 1) : ApiDelete(index, array[index])

\* C2: each accepted operation preserves the max-heap property: if it holds
\* before insert(key) with size < capacity, increaseKey(i, key) with
\* 0 <= i < size and key >= array[i], heapExtractMax with size >= 1, or
\* delete(index) with 0 <= index < size, it holds after the call.
C2_AcceptedCallsPreserveMaxHeap ==
    [][(MaxHeap /\ AcceptedCall) => (MaxHeap' /\ err' = "none" /\ pc' = "returned")]_vars

\* C2's case: a call of increaseKey has returned on a heap of three or more
\* elements whose new root is INT_MAX above smaller keys.
C2_Witness ==
    /\ mode = "api" /\ last = "increaseKey" /\ err = "none" /\ pc = "returned"
    /\ size >= 3 /\ MaxHeap
    /\ array[ROOT] = INT_MAX /\ array[1] < INT_MAX

\* The elements handed to the heap before a drain, as a 0-based array.
OrigArray ==
    [j \in 0..(Len(orig) - 1) |-> orig[j + 1]]

\* What a drain has to keep true: no call failed, the values extracted so
\* far are in non-increasing order, and together with the elements still in
\* the heap they are the elements handed in (so that after Len(orig)
\* extractions, out holds them all and size is 0).
DrainInOrder ==
    /\ err = "none"
    /\ NonIncreasing(out)
    /\ size = Len(orig) - Len(out)
    /\ \A k \in Keys : BagOfSeq(out)[k] + BagOf(array, size)[k] = BagOfSeq(orig)[k]

\* C3: starting from any heap of n elements that satisfies the max-heap
\* property (any d >= 1), n successive heapExtractMax calls return a
\* non-increasing sequence whose multiset is that of the n elements, and
\* leave size = 0.
C3_ExtractMaxDrainsInOrder ==
    (mode = "given" /\ MaxHeapOf(OrigArray, Len(orig), d)) => DrainInOrder

\* C3's case: a full heap with d >= 2, given as it is, has been emptied and
\* the values extracted are not all equal.
C3_Witness ==
    /\ mode = "given" /\ MaxHeapOf(OrigArray, Len(orig), d)
    /\ d >= 2 /\ Len(orig) = MAX_CAPACITY
    /\ size = 0 /\ Len(out) = MAX_CAPACITY
    /\ out[1] > out[2] /\ out[2] > out[MAX_CAPACITY]

\* C4: for d = 1 and for d = 4, and for every initial array, buildMaxHeap
\* yields a heap that satisfies the max-heap property and whose repeated
\* heapExtractMax until empty returns the original multiset of elements in
\* non-increasing order.
C4_DegreeOneAndFour ==
    (mode = "build" /\ d \in {1, 4} /\ pc = "drain") =>
        /\ last = "buildMaxHeap" => MaxHeap
        /\ DrainInOrder

\* The part of C4 that is about d = 1 alone.
C4_DegreeOne ==
    (mode = "build" /\ d = 1 /\ pc = "drain") =>
        /\ last = "buildMaxHeap" => MaxHeap
        /\ DrainInOrder

\* C5: round trip: for any d >= 1 and any sequence of at most capacity many
\* keys, inserting them one by one into an empty heap and then calling
\* heapExtractMax until the heap is empty returns the same multiset of keys
\* in non-increasing order.
C5_InsertThenDrainSorts ==
    mode = "insert" => DrainInOrder

\* C5's case: capacity many keys were inserted, the last greater than the
\* first, and all of them have been extracted again.
C5_Witness ==
    /\ mode = "insert" /\ Len(orig) = MAX_CAPACITY
    /\ orig[1] < orig[2] /\ orig[2] < orig[MAX_CAPACITY]
    /\ size = 0 /\ Len(out) = MAX_CAPACITY
    /\ out[1] = INT_MAX /\ out[MAX_CAPACITY] = 0

\* The multiset of the heap after a step is the one before, less one
\* occurrence of the key v.
OneRemoved(v) ==
    \A k \in Keys :
        BagOf(array', size')[k] = BagOf(array, size)[k] - (IF k = v THEN 1 ELSE 0)

\* C6: delete(index) with 0 <= index < size on a heap satisfying the
\* max-heap property removes exactly one occurrence of the value stored at
\* index and nothing else, for every key value, also when the heap holds keys
\* equal to INT_MAX or array[index] itself is INT_MAX.
C6_DeleteRemovesTheElement ==
    [][\A index \in 0..(size - 1) :
          (MaxHeap /\ ApiDelete(index, array[index])) =>
              (err' = "none" /\ pc' = "returned" /\ OneRemoved(array[index]))]_vars

\* C6's case: delete has returned and has left a heap of two or more
\* elements with INT_MAX at the root and a smaller key below it, so the heap
\* held a key equal to the sentinel when delete raised the key to INT_MAX.
C6_Witness ==
    /\ mode = "api" /\ last = "delete" /\ err = "none" /\ pc = "returned"
    /\ size >= 2 /\ MaxHeap
    /\ array[ROOT] = INT_MAX /\ array[size - 1] < INT_MAX

\* C7: size bookkeeping: insert increases size by exactly 1 when
\* size < capacity and otherwise fails with Overflow, size unchanged;
\* heapExtractMax decreases size by exactly 1 when size >= 1 and otherwise
\* fails with Underflow, size unchanged; delete(index) decreases size by
\* exactly 1 when index is valid and otherwise fails with IndexOutOfBounds,
\* size unchanged.
C7_SizeBookkeeping ==
    [][/\ \A key \in Keys :
            ApiInsert(key) =>
                IF size < MAX_CAPACITY
                THEN err' = "none" /\ size' = size + 1
                ELSE err' = "Overflow" /\ size' = size
       /\ ApiExtractMax =>
                IF size >= 1
                THEN err' = "none" /\ size' = size - 1
                ELSE err' = "Underflow" /\ size' = size
       /\ \A index \in ApiIndices : \A cur \in ReadAt(array, index) :
            ApiDelete(index, cur) =>
                IF index \in 0..(size - 1)
                THEN err' = "none" /\ size' = size - 1
                ELSE err' = "IndexOutOfBounds" /\ size' = size]_vars

\* What is left of C7 when delete is called with an index >= 0 only.
C7_ExceptNegativeIndex ==
    [][/\ \A key \in Keys :
            ApiInsert(key) =>
                IF size < MAX_CAPACITY
                THEN err' = "none" /\ size' = size + 1
                ELSE err' = "Overflow" /\ size' = size
       /\ ApiExtractMax =>
                IF size >= 1
                THEN err' = "none" /\ size' = size - 1
                ELSE err' = "Underflow" /\ size' = size
       /\ \A index \in 0..MAX_CAPACITY : \A cur \in ReadAt(array, index) :
            ApiDelete(index, cur) =>
                IF index \in 0..(size - 1)
                THEN err' = "none" /\ size' = size - 1
                ELSE err' = "IndexOutOfBounds" /\ size' = size]_vars

\* C8: increaseKey(i, key) and delete(index) reject every index that is not
\* in [0, size), both index >= size and index < 0, with IndexOutOfBounds,
\* and leave the array alone.
C8_IndexOutOfBoundsRejected ==
    [][\A i \in ApiIndices, key \in Keys : \A cur \in ReadAt(array, i) :
          (i \notin 0..(size - 1) /\ (ApiIncreaseKey(i, key, cur) \/ ApiDelete(i, cur)))
              => (err' = "IndexOutOfBounds" /\ pc' = "exited" /\ UNCHANGED heapVars)]_vars

\* The part of C8 the code does implement: delete with index >= size.
C8_DeleteUpperBound ==
    [][\A i \in ApiIndices : \A cur \in ReadAt(array, i) :
          (i >= size /\ ApiDelete(i, cur))
              => (err' = "IndexOutOfBounds" /\ pc' = "exited" /\ UNCHANGED heapVars)]_vars

\* C9: no partial mutation on rejection: when insert fails with Overflow
\* (size = capacity), heapExtractMax with Underflow (size = 0), increaseKey
\* with InvalidKey (key < array[i]) or delete with IndexOutOfBounds
\* (index >= size), the array, size and d are, when the error is raised,
\* what they were before the call.
C9_RejectionLeavesHeapUnchanged ==
    [][/\ \A key \in Keys :
            (size = MAX_CAPACITY /\ ApiInsert(key))
                => (err' = "Overflow" /\ pc' = "exited" /\ UNCHANGED heapVars)
       /\ (size = 0 /\ ApiExtractMax)
                => (err' = "Underflow" /\ pc' = "exited" /\ UNCHANGED heapVars)
       /\ \A i \in Slots, key \in Keys :
            (key < array[i] /\ ApiIncreaseKey(i, key, array[i]))
                => (err' = "InvalidKey" /\ pc' = "exited" /\ UNCHANGED heapVars)
       /\ \A index \in ApiIndices : \A cur \in ReadAt(array, index) :
            (index >= size /\ ApiDelete(index, cur))
                => (err' = "IndexOutOfBounds" /\ pc' = "exited" /\ UNCHANGED heapVars)]_vars

\* C9's case: increaseKey was called with a key smaller than the one stored
\* and has ended the process with InvalidKey, on a heap of several elements.
C9_Witness ==
    /\ mode = "api" /\ last = "increaseKey" /\ err = "InvalidKey" /\ pc = "exited"
    /\ size >= 2

\* The other three rejections of C9 happen as well.
C9_WitnessOverflow ==
    mode = "api" /\ last = "insert" /\ err = "Overflow" /\ size = MAX_CAPACITY

C9_WitnessUnderflow ==
    mode = "api" /\ last = "heapExtractMax" /\ err = "Underflow" /\ size = 0

C9_WitnessIndexOutOfBounds ==
    mode = "api" /\ last = "delete" /\ err = "IndexOutOfBounds" /\ size >= 1

\* C10: errors are recoverable: after an operation is rejected with
\* Overflow, Underflow, InvalidKey or IndexOutOfBounds the session is not
\* terminated; it is back in the interaction loop, where further heap
\* operations can be issued.
C10_ErrorsAreRecoverable ==
    err # "none" => pc = "menu"

\* C10 as amended: a rejected operation ends the process: with the error
\* raised the process has exited, and from there nothing changes any more
\* (no further heap operation is issued).
C10_ErrorsEndTheProcess ==
    [][/\ err' # "none" => pc' = "exited"
       /\ pc = "exited" => UNCHANGED vars]_vars

\* C10's case: main has called increaseKey with a key smaller than the one
\* stored and the process has exited with InvalidKey.
C10_Witness ==
    /\ mode = "main" /\ last = "increaseKey" /\ err = "InvalidKey"
    /\ pc = "exited" /\ size >= 1

\* The errors main can run into with the inputs its prompts accept.
MainErrors ==
    err \in {"none", "Overflow", "InvalidKey"}

(***************************************************************************)
(* Claims C11 to C20.                                                      *)
(***************************************************************************)

RootIsMax(a, n) ==
    n >= 1 /\ \A j \in 0..(n - 1) : a[ROOT] >= a[j]

\* The scenario of C13: the array [3,1,4,1,5,9,2,6] with d = 2, after
\* buildMaxHeap, after heapExtractMax on that, and after the store and the
\* loop of insert(10) (lines 150-158) on that.
ScenarioArray ==
    [j \in 0..7 |-> <<3, 1, 4, 1, 5, 9, 2, 6>>[j + 1]]

ScenarioBuilt ==
    buildMaxHeap(Heap(ScenarioArray, 8, 2))

ScenarioExtracted ==
    heapExtractMax(ScenarioBuilt.heap)

ScenarioInserted ==
    insertSiftUp([ScenarioExtracted.heap.array EXCEPT ![7] = 10], 2, 7)

\* C13: for d = 2 and a non-empty initial array, after buildMaxHeap the
\* root array[0] is the maximum of the elements; heapExtractMax then
\* returns that maximum and leaves the maximum of the remaining elements at
\* the root; an insert(key) with key greater than every element makes key
\* the root.  Instance: [3,1,4,1,5,9,2,6] with d = 2 has root 9 after the
\* build; heapExtractMax returns 9 and leaves size 7 and root 6; insert(10)
\* makes the root 10.
C13_RootIsMaximum ==
    [][d = 2 =>
          /\ (MainBuild /\ size >= 1) => RootIsMax(array', size')
          /\ MainExtractMax =>
                /\ ret' = array[ROOT]
                /\ \A j \in 0..(size - 1) : ret' >= array[j]
                /\ OneRemoved(ret')
                /\ size' >= 1 => RootIsMax(array', size')
          /\ \A key \in Keys :
                (/\ MainInsert(key)
                 /\ size < MAX_CAPACITY
                 /\ \A j \in 0..(size - 1) : key > array[j])
                   => (array'[ROOT] = key /\ size' = size + 1)
          /\ ScenarioBuilt.heap.array[ROOT] = 9
          /\ ScenarioExtracted.ret = 9
          /\ ScenarioExtracted.heap.size = 7
          /\ ScenarioExtracted.heap.array[ROOT] = 6
          /\ ScenarioInserted[ROOT] = 10]_vars

\* C13's case: with d = 2, after the build and an extraction, a key
\* greater than each of the three or more elements has been inserted and
\* is the root.
C13_Witness ==
    /\ mode = "main" /\ d = 2 /\ last = "insert" /\ err = "none"
    /\ size = MAX_CAPACITY
    /\ \A j \in 1..(size - 1) : array[ROOT] > array[j]
    /\ array[1] > array[size - 1]

\* C14: buildMaxHeap calls dmaxHeapify on every internal node: for every
\* size and d >= 1, each index i that has a child in range (d*i + 1 < size)
\* satisfies i <= size/d - 1, the index at which the loop of buildMaxHeap
\* starts.
C14_BuildVisitsEveryInternalNode ==
    last = "buildMaxHeap" =>
        \A i \in 0..(size - 1) :
            child(i, 1, d) < size => i <= buildStart(size, d)

\* Index j lies in the subtree rooted at index i of the d-ary tree.
RECURSIVE InSubtree(_, _, _)
InSubtree(j, i, dd) ==
    IF j = i THEN TRUE
    ELSE IF j < i THEN FALSE
    ELSE InSubtree(parent(j, dd), i, dd)

\* The max-heap property of the subtree rooted at i, within the first n
\* slots of a.
SubtreeMaxHeap(a, n, dd, i) ==
    \A j \in 0..(n - 1) :
        InSubtree(j, i, dd) =>
            \A k \in 1..dd :
                child(j, k, dd) < n => a[j] >= a[child(j, k, dd)]

\* C15: dmaxHeapify(i): if every subtree rooted at a child of i has the
\* max-heap property before the call, then after the call the whole
\* subtree rooted at i has it, and no array slot outside that subtree is
\* modified (nor are size and d).
C15_HeapifyRestoresSubtree ==
    [][\A i \in 0..(size - 1) :
          (/\ ApiHeapify(i)
           /\ \A k \in 1..d :
                 child(i, k, d) < size
                    => SubtreeMaxHeap(array, size, d, child(i, k, d)))
             => /\ err' = "none" /\ pc' = "returned"
                /\ SubtreeMaxHeap(array', size, d, i)
                /\ \A j \in Slots :
                      (j >= size \/ ~InSubtree(j, i, d))
                         => array'[j] = array[j]
                /\ size' = size /\ d' = d]_vars

\* C15's case: dmaxHeapify has returned from a call on node 1 of a heap
\* whose root is smaller than node 1: the subtree of node 1 has the
\* max-heap property, the root, outside that subtree, still breaks it.
C15_Witness ==
    /\ mode = "api" /\ last = "dmaxHeapify" /\ pc = "returned"
    /\ size = MAX_CAPACITY /\ d = 1
    /\ SubtreeMaxHeap(array, size, d, 1)
    /\ array[1] > array[2] /\ array[2] > array[3]
    /\ array[ROOT] < array[1]

\* C16: buildMaxHeap only permutes the heap: the multiset of
\* array[0..size-1] after the call equals the multiset before it, and size
\* and d are unchanged.
C16_BuildOnlyPermutes ==
    [][DrainBuild =>
          /\ BagOf(array', size') = BagOf(array, size)
          /\ size' = size
          /\ d' = d]_vars

\* C16's case: buildMaxHeap has run on a full array and has moved keys:
\* the array is no longer the one handed over.
C16_Witness ==
    /\ mode = "build" /\ last = "buildMaxHeap" /\ pc = "drain"
    /\ size = MAX_CAPACITY /\ Len(orig) = size
    /\ Prefix(array, size) # orig
    /\ array[ROOT] > orig[1]

\* The call has ended: the function has returned or the process has exited.
Done ==
    pc \in {"returned", "exited"}

ChildrenInRange(n, dd, i) ==
    {c \in 0..(n - 1) : \E k \in 1..dd : c = child(i, k, dd)}

\* C18: the tie-break of dmaxHeapify: at each level, when the node is
\* smaller than its largest child and several children in range share that
\* largest value, the node is swapped with the one of lowest index (the
\* leftmost); when no child is greater than the node, in particular when a
\* child is equal to it, nothing is swapped.
C18_LeftmostLargestChild ==
    [][StepsDown =>
          LET i == iter.i
              kids == ChildrenInRange(size, d, i)
              top == {c \in kids : \A c2 \in kids : array[c] >= array[c2]}
          IN  IF \E c \in kids : array[c] > array[i]
              THEN \E c \in top :
                      /\ \A c2 \in top : c <= c2
                      /\ array' = swap(array, i, c)
                      /\ iter'.i = c
              ELSE array' = array]_vars

\* C18's case: dmaxHeapify, called by heapExtractMax, has swapped the root
\* with its leftmost child, and a child further right holds the same key
\* as that child did (the key now at the root), greater than the key moved
\* down.
C18_Witness ==
    /\ mode = "steps" /\ last = "heapExtractMax" /\ pc = "loop"
    /\ iter.fn = "down" /\ iter.i = 1
    /\ \E c \in ChildrenInRange(size, d, ROOT) :
          c > iter.i /\ array[c] = array[ROOT]
    /\ array[ROOT] > array[iter.i]

\* C19: for every degree the program accepts (1 <= d <= INT_MAX) and every
\* size in 0..MAX_CAPACITY, the child index d*i + k and the loop counter k
\* in dmaxHeapify never overflow int, and every array slot dmaxHeapify
\* reads or writes lies in [0, size): whenever an iteration of the for
\* loop is about to run, d*i + j is at most INT_MAX, j is below INT_MAX (so
\* that ++j stays in range), and the slots array[largest] and, when below
\* size, array[d*i + j] are in [0, size).
C19_NoOverflowInHeapify ==
    (mode = "int" /\ pc = "for" /\ iter.j <= d) =>
        /\ ~ChildOverflows(iter.i, iter.j, d)
        /\ iter.j < INT_MAX
        /\ child(iter.i, iter.j, d) < size =>
              /\ child(iter.i, iter.j, d) \in 0..(size - 1)
              /\ iter.largest \in 0..(size - 1)

\* C20: in the interactive loop, after any menu choice there is always
\* some input the validated prompt accepts, so that the session can always
\* get back to the menu, in particular with size = 0, where the index
\* prompt of Increase Key and Delete Key asks for a number between 0 and
\* size - 1: whenever the session stands at that prompt, some number n with
\* 0 <= n <= size - 1 exists.
C20_PromptAcceptsSomeInput ==
    pc = "getIntInput" => \E n \in 0..MAX_CAPACITY : 0 <= n /\ n <= size - 1

=============================================================================
